---- MODULE Spec2Model ----
(***************************************************************************)
(* Model of the enumeration core of the Calgary MLX scraper:               *)
(*   CalgaryMLXScraper._fetch_location_with_type  (src/src/scraper.py)     *)
(*   CalgaryMLXScraper.fetch_properties                                    *)
(*   CalgaryMLXScraper.fetch_properties_by_prices                          *)
(*   MLXAPI.search, Tile, MLXAPIResponse          (src/src/api.py)         *)
(* One area and one property type are enumerated over the years            *)
(* start_year..end_year.  The remote endpoint is nondeterministic: every   *)
(* request is answered by any response of the set Responses.               *)
(* A DataFrame is modelled as the sequence of the ids of its rows.         *)
(***************************************************************************)
EXTENDS Integers, Sequences, FiniteSets, TLC

(* ----------------------------- bounds ---------------------------------- *)
\* number of years start_year..end_year of a run over several years
NumYears == 2
\* the remote returns tiles with ids 0..MaxTileId
MaxTileId == 2
\* the remote returns listings with LIST_ID 1..MaxRecId
MaxRecId == 2
\* the remote reports totalFound in 0..MaxFound
MaxFound == 2
\* the listings of a response parsed on its own
MaxListings == 3
\* the radius of a tile boundary, in hundredths of a degree, is 0..MaxRadius
MaxRadius == 3

(* ------------------------- program constants --------------------------- *)
START_YEAR == 2000
PRICE_FROM == 100000
PRICE_TO == 2000000
PRICE_STEP == 100000
MIN_PRICE_STEP == 1000
\* default radius of MLXAPI.search, in hundredths of a degree (0.02)
DefaultRadius == 2
\* the coordinates of the city centre, in whole degrees
DEFAULT_LATITUDE == 51
DEFAULT_LONGITUDE == -114
GEOCODER_MAX_RETRIES == 3
(* --------------------------- Python values ----------------------------- *)
\* MLXAPI.search receives its arguments positionally, so a parameter can be
\* bound to a value of another type than its name suggests; values carry
\* their Python type.
PyInt(n) == [ty |-> "int", v |-> n]
PyStr(s) == [ty |-> "str", v |-> s]
PyNone == [ty |-> "NoneType"]
PyTuple(a, b) == [ty |-> "tuple", a |-> a, b |-> b]

Tile(lat, lon, count, id, pixel_size) ==
  [ty |-> "Tile", lat |-> lat, lon |-> lon, count |-> count, id |-> id,
   pixel_size |-> pixel_size]

TileEqAllFields(a, b) == a = b
\* Tile.__eq__: tiles are compared by id only
TileEq(a, b) == a.id = b.id

\* `new_tile not in tiles`
TileIn(t, ts) == \E k \in 1..Len(ts) : TileEq(ts[k], t)

\* truth value of a Python object in `if tile and ...`
Truthy(x) ==
  CASE x.ty = "int" -> x.v # 0
    [] x.ty = "str" -> x.v # ""
    [] x.ty = "NoneType" -> FALSE
    [] OTHER -> TRUE

\* subarea_info of the area being enumerated
SubareaInfo == [name |-> "Arbour Lake", type |-> "SUBAREA", latitude |-> 51, longitude |-> -114]

DwellingType == "DETACHED"

(* ----------------------------- DataFrames ------------------------------ *)
RECURSIVE DropDuplicates(_)
\* DataFrame.drop_duplicates(subset=["id"]): the first row of every id is kept
DropDuplicates(s) ==
  IF s = <<>> THEN <<>>
  ELSE LET init == DropDuplicates(SubSeq(s, 1, Len(s) - 1))
           last == s[Len(s)]
       IN IF \E k \in 1..Len(init) : init[k] = last THEN init ELSE Append(init, last)

Ids(s) == {s[k] : k \in 1..Len(s)}

NoDuplicates(s) == \A j, k \in 1..Len(s) : j # k => s[j] # s[k]

RECURSIVE SetToSeq(_)
SetToSeq(S) ==
  IF S = {} THEN <<>>
  ELSE LET m == CHOOSE x \in S : \A y \in S : x <= y
       IN <<m>> \o SetToSeq(S \ {m})

(* ------------------------------ the remote ----------------------------- *)
\* MLXAPIResponse._parse_tiles: a tile of the response; missing fields are 0
RemoteTile(id) == Tile(50 + id, -110 - id, id, id, 0)

\* the tiles of one response: none, any single tile, or every tile
TileLists ==
  {<<>>, [k \in 1..(MaxTileId + 1) |-> RemoteTile(k - 1)]}
  \cup {<<RemoteTile(k)>> : k \in 0..MaxTileId}

\* the listings of one response: none, any single listing, or every listing
ListingLists(ids) == {<<>>, SetToSeq(ids)} \cup {<<i>> : i \in ids}

\* what the remote can answer to one request:
\*   "ok"          a JSON body with totalFound, listings and tiles
\*   "bad_listing" a JSON body whose listings lack a mapped column
\*   "error"       a transport error or a non-2xx status
\*   "bad_json"    a 2xx response whose body response.json() cannot decode
Responses(ids) ==
  [kind : {"ok"}, total_found : 0..MaxFound,
   listings : ListingLists(ids),
   tiles : TileLists]
  \cup
  [kind : {"bad_listing"}, total_found : 0..MaxFound,
   listings : {<<1>>},
   tiles : {<<>>}]
  \cup
  {[kind |-> "error", total_found |-> 0, listings |-> <<>>, tiles |-> <<>>],
   [kind |-> "bad_json", total_found |-> 0, listings |-> <<>>, tiles |-> <<>>]}

(* ---------------------------- MLXAPI.search ---------------------------- *)
\* whether search reaches random_sleep(), which stands after
\* requests.post and response.raise_for_status()
Sleeps(kind) == kind # "error"

\* a boundary whose south-west corner is the centre
create_tile_boundary_from_centre(tile, radius) ==
  [sw_lat |-> tile.lat * 100, sw_lng |-> tile.lon * 100,
   ne_lat |-> tile.lat * 100 + radius, ne_lng |-> tile.lon * 100 + radius,
   center_lat |-> tile.lat * 100, center_lng |-> tile.lon * 100]

\* MLXAPI._create_tile_boundary; the box is in hundredths of a degree, the
\* unit of radius
create_tile_boundary(tile, radius) ==
  [sw_lat |-> tile.lat * 100 - radius, sw_lng |-> tile.lon * 100 - radius,
   ne_lat |-> tile.lat * 100 + radius, ne_lng |-> tile.lon * 100 + radius,
   center_lat |-> tile.lat * 100, center_lng |-> tile.lon * 100]

\* MLXAPI.search up to the request: the payload it builds from its
\* parameters, or raises = TRUE when building it raises.  `tile.id` raises
\* AttributeError when the object bound to `tile` is truthy and no Tile.
search(subarea_code, subarea_info, year_from, year_to, dwelling_type, tile, pfrom, pto, radius) ==
  LET attr_error == Truthy(tile) /\ tile.ty # "Tile"
      type_error == pfrom.ty # "int" \/ (pfrom.v > 0 /\ pto.ty # "int")
      value_error == subarea_info.type \notin {"SUBAREA", "COMMUNITY"}
      with_box == Truthy(tile) /\ ~attr_error /\ tile.id # 0
      with_price == ~type_error /\ pfrom.v > 0 /\ pto.v > 0
  IN [raises |-> attr_error \/ type_error \/ value_error,
      YEAR_BUILT |-> <<year_from, year_to>>,
      DWELLING_TYPE |-> dwelling_type,
      boundary |-> IF with_box THEN create_tile_boundary(tile, radius) ELSE PyNone,
      price |-> IF with_price THEN <<pfrom.v, pto.v>> ELSE <<>>,
      omni |-> <<subarea_info.type, subarea_code, subarea_info.name>>]

\* the call of fetch_properties: seven positional arguments after self, so
\* year_to, dwelling_type, tile, price_from receive dwelling_type, tile,
\* price_from, price_to, and price_to and radius keep their defaults
SearchCall(yr, tile, pf, pt) ==
  search("A", SubareaInfo, PyInt(yr), PyStr(DwellingType), tile, PyInt(pf), PyInt(pt),
         PyInt(0), DefaultRadius)

(* -------------------------------- state -------------------------------- *)
VARIABLES
  end_year,     \* self.end_year, set by __init__ (self.start_year is START_YEAR)
  catalog,      \* the LIST_IDs of the listings the remote holds
  pc,           \* "year_loop", "tile_loop", "fp_returned", "price_loop", "done", "crashed"
  year,         \* loop variable of _fetch_location_with_type
  area_df,      \* all_df of _fetch_location_with_type
  csv_saves,    \* number of save_to_csv calls
  csv_df,       \* the dataset given to save_to_csv
  tiles,        \* fetch_properties: the tile list
  idx,          \* fetch_properties: position of the for loop in tiles (from 1)
  is_first,     \* fetch_properties: is_first
  total_found,  \* fetch_properties: total_found
  all_df,       \* fetch_properties: all_df
  price_from,   \* fetch_properties: parameter price_from
  price_to,     \* fetch_properties: parameter price_to
  result,       \* the dictionary returned by the last fetch_properties call
  frames,       \* call stack of fetch_properties_by_prices
  tile_result,  \* _fetch_location_with_type: result, kept during price subdivision
  new_result,   \* _fetch_location_with_type: new_result
  calls,        \* history: MLXAPI.search calls made for the current (area, year) window
  requests,     \* history: requests.post calls made for the current window
  saves,        \* history: save_to_database calls made for the current window
  win_total,    \* history: totalFound of the window's first response (-1: none yet)
  win_ids,      \* history: ids of the records aggregated for the window
  reached,      \* history: the window's aggregate has reached win_total
  exit,         \* history: how the last fetch_properties call ended: "empty", "break",
                \* "exhausted", "search_raised", "parse_raised" ("none": running)
  fetched_ok,   \* history: ids returned by the fetch_properties calls that did not raise
  qlog,         \* history: the searches of the current fetch_properties call
  merged_rows,  \* history: number of rows parsed and merged in the current call
  failed_years, \* history: years whose first fetch_properties call raised
  remote_ids,   \* history: ids of the tiles the responses of the current call
                \* offered to the loop `for new_tile in response.tiles`
  slept,        \* history: random_sleep has run since the last requests.post
                \* (TRUE before the first)
  seen_ids,     \* history: LIST_IDs of the listings of the responses merged in the
                \* current call
  floor_hit,    \* history: a bucket that was not found_all was left as it was
                \* because int(price_step / 10) < MIN_PRICE_STEP
  fn            \* a function or method called on its own: its arguments, its
                \* position and its return value (NoCall: none is)

vars == <<end_year, catalog, pc, year, area_df, csv_saves, csv_df, tiles, idx, is_first, total_found,
          all_df, price_from, price_to, result, frames, tile_result, new_result,
          calls, requests, saves, win_total, win_ids, reached, exit, fetched_ok, qlog,
          merged_rows, failed_years, remote_ids, seen_ids, slept, floor_hit, fn>>

fp_vars == <<tiles, idx, is_first, total_found, all_df, price_from, price_to, result>>
area_vars == <<year, area_df, csv_saves, csv_df>>
env_vars == <<end_year, catalog, fn>>
hist_vars == <<calls, requests, saves, win_total, win_ids, reached, exit, fetched_ok, qlog,
               merged_rows, failed_years, remote_ids, seen_ids, slept, floor_hit>>

\* result = {"count": 0, "df": pd.DataFrame(), "found_all": True}
DefaultResult == [count |-> 0, df |-> <<>>, found_all |-> TRUE]
\* no dictionary assigned yet
NoResult == [count |-> -1, df |-> <<>>, found_all |-> FALSE]

\* the for loop of fetch_properties never reads past this position
MaxQueries == MaxTileId + 2

\* no function is called on its own
NoCall == [op |-> "none"]

\* the scraper after __init__, before _fetch_location_with_type
Constructed ==
  /\ pc = "year_loop"
  /\ year = START_YEAR
  /\ area_df = <<>>
  /\ csv_saves = 0
  /\ csv_df = <<>>
  /\ tiles = <<>>
  /\ idx = 1
  /\ is_first = TRUE
  /\ total_found = 0
  /\ all_df = <<>>
  /\ price_from = 0
  /\ price_to = 0
  /\ result = NoResult
  /\ frames = <<>>
  /\ tile_result = NoResult
  /\ new_result = NoResult
  /\ calls = 0
  /\ requests = 0
  /\ saves = 0
  /\ win_total = -1
  /\ win_ids = {}
  /\ reached = FALSE
  /\ exit = "none"
  /\ fetched_ok = {}
  /\ qlog = <<>>
  /\ merged_rows = 0
  /\ failed_years = {}
  /\ remote_ids = {}
  /\ seen_ids = {}
  /\ slept = TRUE
  /\ floor_hit = FALSE

\* two families of runs: one year against a remote that holds the listings
\* 1..MaxRecId, and NumYears years against a remote that holds one listing
Init ==
  /\ \/ end_year = START_YEAR /\ catalog = 1..MaxRecId
     \/ end_year = START_YEAR + NumYears - 1 /\ catalog = {1}
  /\ fn = NoCall
  /\ Constructed

(* --------------------------- fetch_properties -------------------------- *)
SeedTilesSentinelOnly == <<Tile(0, 0, 0, 0, 0)>>
\* tiles = [Tile(0, 0, 0, 0, 0), Tile(latitude, longitude, 0, 1, 0)]
SeedTiles ==
  <<Tile(0, 0, 0, 0, 0), Tile(SubareaInfo.latitude, SubareaInfo.longitude, 0, 1, 0)>>

\* entry of fetch_properties(..., price_from=pf, price_to=pt) up to the loop
CallFetchProperties(pf, pt) ==
  /\ tiles' = SeedTiles
  /\ idx' = 1
  /\ is_first' = TRUE
  /\ total_found' = 0
  /\ all_df' = <<>>
  /\ price_from' = pf
  /\ price_to' = pt
  /\ result' = NoResult
  /\ exit' = "none"
  /\ qlog' = <<>>
  /\ merged_rows' = 0
  /\ remote_ids' = {}
  /\ seen_ids' = {}
  /\ pc' = "tile_loop"

\* if total_found == 0: return result
EmptyWindowNever(tf) == FALSE
EmptyWindow(tf) == tf = 0

\* all_df = pd.concat([all_df, df]); all_df = all_df.drop_duplicates(subset=["id"])
MergeDfNoDedup(old, df) == old \o df
MergeDf(old, df) == DropDuplicates(old \o df)

\* if total_retrived >= total_found: break
AllRetrieved(total_retrived, tf) == total_retrived >= tf

RECURSIVE AppendNewTilesUnchecked(_, _)
AppendNewTilesUnchecked(ts, new) ==
  IF new = <<>> THEN ts
  ELSE AppendNewTilesUnchecked(Append(ts, Head(new)), Tail(new))

RECURSIVE AppendNewTiles(_, _)
\* for new_tile in response.tiles: if new_tile not in tiles: tiles.append(new_tile)
AppendNewTiles(ts, new) ==
  IF new = <<>> THEN ts
  ELSE AppendNewTiles(IF TileIn(Head(new), ts) THEN ts ELSE Append(ts, Head(new)),
                      Tail(new))

\* if is_first: total_found = response.total_found
TotalFoundLatest(first, old, reported) == reported
TotalFound(first, old, reported) == IF first THEN reported ELSE old

\* result["found_all"] = total_retrived == total_found
FoundAll(total_retrived, tf) == total_retrived = tf

\* where control goes when the body of fetch_properties raises:
\* `except Exception` returns result to the caller
ExceptPcPropagate == "crashed"
ExceptPc == "fp_returned"

\* one iteration of `for i, tile in enumerate(tiles)`: the search, the
\* handling of its response r and, when the loop ends, the rest of the call
TileQuery(r) ==
  /\ pc = "tile_loop"
  /\ idx <= Len(tiles)
  /\ idx <= MaxQueries
  /\ LET tile == tiles[idx]
         s == SearchCall(year, tile, price_from, price_to)
         raised_search == s.raises \/ r.kind \in {"error", "bad_json"}
         tf == TotalFound(is_first, total_found, r.total_found)
         empty == is_first /\ EmptyWindow(tf)
         raised_parse == r.kind = "bad_listing"
         merged == MergeDf(all_df, r.listings)
         total_retrived == Len(merged)
         new_tiles == AppendNewTiles(tiles, r.tiles)
         outcome ==
           IF raised_search THEN "search_raised"
           ELSE IF empty THEN "empty"
           ELSE IF raised_parse THEN "parse_raised"
           ELSE IF AllRetrieved(total_retrived, tf) THEN "break"
           ELSE IF idx + 1 > Len(new_tiles) THEN "exhausted"
           ELSE "continue"
         returned == [count |-> Len(merged), df |-> merged,
                      found_all |-> FoundAll(total_retrived, tf)]
         raised == outcome \in {"search_raised", "parse_raised"}
         in_window == frames = <<>>
     IN
     /\ calls' = calls + 1
     /\ requests' = IF s.raises THEN requests ELSE requests + 1
     /\ qlog' = Append(qlog, [tile |-> tile, payload |-> s, radius |-> DefaultRadius,
                              retry |-> FALSE,
                              stale |-> /\ ~raised_search
                                        /\ r.total_found = 0
                                        /\ r.listings = <<>>
                                        /\ tile.count # 0])
     /\ is_first' = IF raised_search THEN is_first ELSE FALSE
     /\ total_found' = IF raised_search THEN total_found ELSE tf
     /\ all_df' = IF outcome \in {"break", "exhausted", "continue"} THEN merged ELSE all_df
     /\ tiles' = IF outcome \in {"exhausted", "continue"} THEN new_tiles ELSE tiles
     /\ idx' = IF outcome \in {"exhausted", "continue"} THEN idx + 1 ELSE idx
     /\ result' = CASE raised \/ outcome = "empty" -> DefaultResult
                    [] outcome \in {"break", "exhausted"} -> returned
                    [] OTHER -> result
     /\ pc' = CASE raised -> ExceptPc
                [] outcome = "continue" -> "tile_loop"
                [] OTHER -> "fp_returned"
     /\ exit' = IF outcome = "continue" THEN exit ELSE outcome
     /\ saves' = IF outcome \in {"break", "exhausted"} THEN saves + 1 ELSE saves
     /\ fetched_ok' = IF outcome \in {"break", "exhausted"}
                      THEN fetched_ok \cup Ids(merged) ELSE fetched_ok
     /\ merged_rows' = IF outcome \in {"break", "exhausted", "continue"}
                       THEN merged_rows + Len(r.listings) ELSE merged_rows
     /\ failed_years' = IF in_window /\ raised
                        THEN failed_years \cup {year} ELSE failed_years
     /\ slept' = IF s.raises THEN slept ELSE Sleeps(r.kind)
     /\ seen_ids' = IF outcome \in {"break", "exhausted", "continue"}
                    THEN seen_ids \cup Ids(r.listings) ELSE seen_ids
     /\ remote_ids' = IF outcome \in {"exhausted", "continue"}
                      THEN remote_ids \cup {r.tiles[k].id : k \in 1..Len(r.tiles)}
                      ELSE remote_ids
     /\ win_total' = IF in_window /\ is_first /\ ~raised_search THEN r.total_found
                     ELSE win_total
     /\ win_ids' = IF in_window /\ outcome \in {"break", "exhausted", "continue"}
                   THEN Ids(merged) ELSE win_ids
     /\ reached' = IF in_window /\ ~raised
                   THEN Cardinality(win_ids') >= win_total' ELSE reached
     /\ UNCHANGED <<price_from, price_to, frames, tile_result, new_result, floor_hit>>
     /\ UNCHANGED area_vars
     /\ UNCHANGED env_vars

(* --------------------- fetch_properties_by_prices ---------------------- *)
Top == frames[Len(frames)]
Pop == SubSeq(frames, 1, Len(frames) - 1)
ReplaceTop(f) == [frames EXCEPT ![Len(frames)] = f]

\* the frame of a call fetch_properties_by_prices(count, pf, pt, step)
\* that enters its loop
Frame(count, pf, pt, step) ==
  [count |-> count, price_from |-> pf, price_to |-> pt, price_step |-> step,
   price |-> pf, all_df |-> <<>>]

\* if price_step < MIN_PRICE_STEP: return result
BelowFloor(step) == step < MIN_PRICE_STEP

\* a third of the step
FinerStepThird(step) == step \div 3
\* int(price_step / 10)
FinerStep(step) == step \div 10

\* result["count"], result["df"], result["found_all"] at the end of the loop
PricesResult(f) ==
  [count |-> Len(f.all_df), df |-> f.all_df, found_all |-> Len(f.all_df) = f.count]

(* ---------------------- _fetch_location_with_type ---------------------- *)
\* if result["found_all"] and result["count"] == 0: continue
SkipYear(res) == res.found_all /\ res.count = 0

\* lines 365-369: the year's records are appended to the area's dataset
YearMerge(new_df, res_df) ==
  LET df == new_df \o res_df
  IN /\ area_df' = IF df # <<>> THEN area_df \o DropDuplicates(df) ELSE area_df
     /\ year' = year + 1
     /\ pc' = "year_loop"

\* the next year of `for year in range(self.start_year, self.end_year + 1)`:
\* fetch_properties is called without price bounds
StartYear ==
  /\ pc = "year_loop"
  /\ year <= end_year
  /\ CallFetchProperties(0, 0)
  /\ calls' = 0
  /\ requests' = 0
  /\ saves' = 0
  /\ win_total' = -1
  /\ win_ids' = {}
  /\ reached' = FALSE
  /\ tile_result' = NoResult
  /\ new_result' = NoResult
  /\ floor_hit' = FALSE
  /\ UNCHANGED <<frames, fetched_ok, failed_years, slept>>
  /\ UNCHANGED area_vars
  /\ UNCHANGED env_vars

\* lines 345-369 after fetch_properties returned to the year loop
YearAfterFetch ==
  /\ pc = "fp_returned"
  /\ frames = <<>>
  /\ IF SkipYear(result)
     THEN /\ year' = year + 1
          /\ pc' = "year_loop"
          /\ UNCHANGED <<area_df, frames, tile_result, new_result>>
     ELSE IF ~result.found_all
     THEN IF BelowFloor(PRICE_STEP)
          THEN /\ new_result' = DefaultResult
               /\ YearMerge(<<>>, result.df)
               /\ UNCHANGED <<frames, tile_result>>
          ELSE /\ frames' = <<Frame(result.count, PRICE_FROM, PRICE_TO, PRICE_STEP)>>
               /\ tile_result' = result
               /\ pc' = "price_loop"
               /\ UNCHANGED <<year, area_df, new_result>>
     ELSE /\ YearMerge(<<>>, result.df)
          /\ UNCHANGED <<frames, tile_result, new_result>>
  /\ UNCHANGED <<csv_saves, csv_df>>
  /\ UNCHANGED fp_vars
  /\ UNCHANGED hist_vars
  /\ UNCHANGED env_vars

\* `for price in range(price_from, price_to, price_step)`: the next bucket
\* is fetched with price_from=price, price_to=price + price_step
PriceBucketCall ==
  /\ pc = "price_loop"
  /\ Top.price < Top.price_to
  /\ CallFetchProperties(Top.price, Top.price + Top.price_step)
  /\ UNCHANGED <<frames, tile_result, new_result>>
  /\ UNCHANGED <<calls, requests, saves, win_total, win_ids, reached, fetched_ok,
                 failed_years, slept, floor_hit>>
  /\ UNCHANGED area_vars
  /\ UNCHANGED env_vars

\* lines 237-256 after fetch_properties returned to the bucket loop
BucketAfterFetch ==
  /\ pc = "fp_returned"
  /\ frames # <<>>
  /\ LET f == Top
         next == [f EXCEPT !.price = f.price + f.price_step]
         merged == [next EXCEPT !.all_df = f.all_df \o result.df]
         finer == FinerStep(f.price_step)
     IN IF result.count = 0
        THEN /\ frames' = ReplaceTop(next)
             /\ UNCHANGED <<win_ids, reached, floor_hit>>
        ELSE /\ win_ids' = win_ids \cup Ids(result.df)
             /\ reached' = (Cardinality(win_ids') >= win_total)
             /\ floor_hit' = (floor_hit \/ (~result.found_all /\ BelowFloor(finer)))
             /\ IF ~result.found_all /\ ~BelowFloor(finer)
                THEN frames' = Append(ReplaceTop([f EXCEPT !.all_df = f.all_df \o result.df]),
                                      Frame(f.count, f.price, f.price + f.price_step, finer))
                ELSE frames' = ReplaceTop(merged)
  /\ pc' = "price_loop"
  /\ UNCHANGED <<tile_result, new_result>>
  /\ UNCHANGED <<calls, requests, saves, win_total, exit, fetched_ok, qlog,
                 merged_rows, failed_years, remote_ids, seen_ids, slept>>
  /\ UNCHANGED fp_vars
  /\ UNCHANGED area_vars
  /\ UNCHANGED env_vars

\* lines 258-262: the bucket loop has ended and fetch_properties_by_prices
\* returns, to _fetch_location_with_type or to the call that recursed
PricesReturn ==
  /\ pc = "price_loop"
  /\ Top.price >= Top.price_to
  /\ LET res == PricesResult(Top)
     IN IF Len(frames) = 1
        THEN /\ new_result' = res
             /\ frames' = <<>>
             /\ YearMerge(res.df, tile_result.df)
        ELSE LET parent == frames[Len(frames) - 1]
                 with_df == IF res.count > 0 THEN parent.all_df \o res.df ELSE parent.all_df
             IN /\ frames' = [Pop EXCEPT ![Len(frames) - 1] =
                                [parent EXCEPT !.all_df = with_df,
                                               !.price = parent.price + parent.price_step]]
                /\ pc' = "price_loop"
                /\ UNCHANGED <<year, area_df, new_result>>
  /\ UNCHANGED <<csv_saves, csv_df, tile_result>>
  /\ UNCHANGED fp_vars
  /\ UNCHANGED hist_vars
  /\ UNCHANGED env_vars

\* a call of fetch_properties_by_prices that recursed returns to its caller
NestedReturn == Len(frames) > 1 /\ PricesReturn

FinalDfAsCollected(df) == df
\* final_df = all_df.drop_duplicates(subset=["id"])
FinalDf(df) == DropDuplicates(df)

\* lines 371-385 after the year loop: the area's dataset is saved
Finish ==
  /\ pc = "year_loop"
  /\ year > end_year
  /\ IF area_df # <<>>
     THEN /\ csv_df' = FinalDf(area_df)
          /\ csv_saves' = csv_saves + 1
     ELSE UNCHANGED <<csv_saves, csv_df>>
  /\ pc' = "done"
  /\ UNCHANGED <<year, area_df, frames, tile_result, new_result>>
  /\ UNCHANGED fp_vars
  /\ UNCHANGED hist_vars
  /\ UNCHANGED env_vars

Next ==
  \/ StartYear
  \/ \E r \in Responses(catalog) : TileQuery(r)
  \/ YearAfterFetch
  \/ PriceBucketCall
  \/ BucketAfterFetch
  \/ PricesReturn
  \/ Finish

Spec == Init /\ [][Next]_vars

\* the interpreter runs the program to its end: a step that can be taken is taken
FairSpec == Spec /\ WF_vars(Next)

(* ------------- fetch_properties_by_prices called on its own ------------- *)
\* fetch_properties_by_prices(..., count, price_from=0), price_to and
\* price_step left at their defaults: 0 is the lower bound for which the
\* search of a bucket (the first of each level) does not raise
PricesInit ==
  /\ end_year = START_YEAR
  /\ catalog = {1}
  /\ pc = "price_loop"
  /\ year = START_YEAR
  /\ area_df = <<>>
  /\ csv_saves = 0
  /\ csv_df = <<>>
  /\ tiles = <<>>
  /\ idx = 1
  /\ is_first = TRUE
  /\ total_found = 0
  /\ all_df = <<>>
  /\ price_from = 0
  /\ price_to = 0
  /\ result = NoResult
  /\ \E count \in 0..MaxFound : frames = <<Frame(count, 0, PRICE_TO, PRICE_STEP)>>
  /\ tile_result = NoResult
  /\ new_result = NoResult
  /\ calls = 0
  /\ requests = 0
  /\ saves = 0
  /\ win_total = -1
  /\ win_ids = {}
  /\ reached = FALSE
  /\ exit = "none"
  /\ fetched_ok = {}
  /\ qlog = <<>>
  /\ merged_rows = 0
  /\ failed_years = {}
  /\ remote_ids = {}
  /\ seen_ids = {}
  /\ slept = TRUE
  /\ floor_hit = FALSE
  /\ fn = NoCall

\* lines 258-262: the outermost call returns its result to the caller
DirectReturn ==
  /\ pc = "price_loop"
  /\ Len(frames) = 1
  /\ Top.price >= Top.price_to
  /\ new_result' = PricesResult(Top)
  /\ frames' = <<>>
  /\ pc' = "done"
  /\ UNCHANGED <<tile_result>>
  /\ UNCHANGED fp_vars
  /\ UNCHANGED area_vars
  /\ UNCHANGED hist_vars
  /\ UNCHANGED env_vars

PricesNext ==
  \/ PriceBucketCall
  \/ \E r \in Responses(catalog) : TileQuery(r)
  \/ BucketAfterFetch
  \/ NestedReturn
  \/ DirectReturn

PricesSpec == PricesInit /\ [][PricesNext]_vars

(* ------------------- functions called on their own --------------------- *)
\* the id of a row whose listing has no LIST_ID: the DataFrame holds NaN
\* there, and drop_duplicates takes two NaN for equal
NaN == 0

\* the sequences over S of length at most n
SeqsUpTo(S, n) == UNION {[1..k -> S] : k \in 0..n}

\* MLXAPIResponse._parse_listings on the body of a response: the values of
\* the `listings` mapping when the body has that key, else the `results`
\* array when it has that one, else nothing
parse_listings(response_data) ==
  IF response_data.has_listings THEN response_data.listings
  ELSE IF response_data.has_results THEN response_data.results
  ELSE <<>>

\* parse_property_data on the LIST_IDs of the listings of a response (NaN:
\* the listing has none): no listing gives an empty DataFrame; a column
\* that no listing has makes df[columns_to_keep] raise KeyError
parse_property_data(listings) ==
  IF listings = <<>> THEN [raises |-> FALSE, df |-> <<>>]
  ELSE IF \A k \in 1..Len(listings) : listings[k] = NaN
       THEN [raises |-> TRUE, df |-> <<>>]
       ELSE [raises |-> FALSE, df |-> listings]

\* lines 156-159 of fetch_properties and its except clause: what the call
\* holds after the response is parsed and merged
MergeResponse(old, listings) ==
  LET parsed == parse_property_data(listings)
  IN IF parsed.raises THEN [raises |-> TRUE, df |-> DefaultResult.df]
     ELSE [raises |-> FALSE, df |-> MergeDf(old, parsed.df)]

\* the calls made on their own, before they run
MergeCalls ==
  [op : {"merge"}, all_df : {<<>>, <<1>>, <<NaN>>, <<1, NaN>>},
   listings : SeqsUpTo(0..MaxRecId, MaxListings), done : {FALSE}, out : {<<>>}]

\* _create_tile_boundary on a tile of the remote or the sentinel tile, with
\* a radius that is not negative
BoundaryCalls ==
  [op : {"boundary"},
   tile : {Tile(0, 0, 0, 0, 0)} \cup {RemoteTile(i) : i \in 1..MaxTileId},
   radius : 0..MaxRadius, done : {FALSE}, out : {<<>>}]

\* the bodies of a response: each of the keys `listings` and `results` is
\* present or absent, and holds listings that have a LIST_ID
ResponseData ==
  {rd \in [has_listings : BOOLEAN, listings : SeqsUpTo(1..MaxRecId, MaxListings),
           has_results : BOOLEAN, results : SeqsUpTo(1..MaxRecId, MaxListings)] :
     /\ ~rd.has_listings => rd.listings = <<>>
     /\ ~rd.has_results => rd.results = <<>>}

\* MLXAPIResponse(response_data) handed to parse_property_data
ParseCalls ==
  [op : {"parse"}, response_data : ResponseData, done : {FALSE}, out : {<<>>}]

\* what get_area_coordinates finds: the row of the area, or None when the
\* table has no row for it or the query fails
CachedRow == PyTuple(50, -113)
CacheLookups == {CachedRow, PyNone}

\* what geolocator.geocode gives for an area that it knows
Location == PyTuple(52, -115)

\* _get_area_coordinates before it runs; calls counts the calls of
\* geolocator.geocode, saved and found tell whether save_area_coordinates
\* has stored a row and whether geocode has returned a location
GeoCalls ==
  [op : {"geo"}, coords : CacheLookups, at : {"lookup"}, attempt : {0},
   calls : {0}, found : {FALSE}, saved : {FALSE}, raised : {FALSE},
   done : {FALSE}, out : {<<>>}]

\* a row of the property table or of a DataFrame: its id and the fetch its
\* values come from
Row(id, fetch) == [id |-> id, fetch |-> fetch]

\* the property tables before a save: rows of an earlier fetch
Tables == {{Row(i, "earlier") : i \in ids} : ids \in SUBSET (1..MaxRecId)}

\* save_to_database(table_name, all_df) before it runs: all_df holds every
\* id once
SaveCalls ==
  [op : {"save"}, table : Tables,
   df : {d \in SeqsUpTo(1..MaxRecId, MaxRecId) : NoDuplicates(d)},
   done : {FALSE}, out : {<<>>}]

FnCalls == MergeCalls \cup BoundaryCalls \cup ParseCalls \cup GeoCalls \cup SaveCalls

FnInit ==
  /\ end_year = START_YEAR
  /\ catalog = 1..MaxRecId
  /\ fn \in FnCalls
  /\ Constructed

\* a call returns; nothing of the scraper's run changes
Returns(out) ==
  /\ ~fn.done
  /\ fn' = [fn EXCEPT !.done = TRUE, !.out = out]
  /\ UNCHANGED <<end_year, catalog>>
  /\ UNCHANGED <<frames, tile_result, new_result>>
  /\ UNCHANGED fp_vars
  /\ UNCHANGED area_vars
  /\ UNCHANGED hist_vars
  /\ UNCHANGED pc

\* `if coords:` never taken
CacheHitNever(coords) == FALSE
\* `if coords:` after get_area_coordinates
CacheHit(coords) == Truthy(coords)

DefaultCoordinates == PyTuple(DEFAULT_LATITUDE, DEFAULT_LONGITUDE)

\* _get_area_coordinates up to the loop: the row of the cache is returned,
\* or the live search starts
GeoLookup ==
  /\ fn.op = "geo" /\ ~fn.done /\ fn.at = "lookup"
  /\ fn' = IF CacheHit(fn.coords)
           THEN [fn EXCEPT !.done = TRUE, !.out = fn.coords]
           ELSE [fn EXCEPT !.at = "loop"]
  /\ UNCHANGED <<end_year, catalog, frames, tile_result, new_result, pc>>
  /\ UNCHANGED <<fp_vars, area_vars, hist_vars>>

\* one pass of `for attempt in range(GEOCODER_MAX_RETRIES)`: geocode
\* returns a location, returns None, times out (GeocoderTimedOut or
\* GeocoderServiceError) or raises something else; save_area_coordinates
\* stores the row or raises.  What leaves the loop is returned here: the
\* location, or the default of the line after the loop and of the outer
\* except clause.
GeoAttempt(outcome, save_ok) ==
  /\ fn.op = "geo" /\ ~fn.done /\ fn.at = "loop"
  /\ fn.attempt < GEOCODER_MAX_RETRIES
  /\ LET called == [fn EXCEPT !.calls = @ + 1]
         default == [called EXCEPT !.done = TRUE, !.out = DefaultCoordinates]
         again == IF fn.attempt + 1 < GEOCODER_MAX_RETRIES
                  THEN [called EXCEPT !.attempt = @ + 1]
                  ELSE default
     IN fn' = CASE outcome = "found" /\ save_ok ->
                     [called EXCEPT !.found = TRUE, !.saved = TRUE,
                                    !.done = TRUE, !.out = Location]
                [] outcome = "found" /\ ~save_ok ->
                     [default EXCEPT !.found = TRUE]
                [] outcome = "none" -> again
                [] outcome = "timeout" -> again
                [] OTHER -> default
  /\ UNCHANGED <<end_year, catalog, frames, tile_result, new_result, pc>>
  /\ UNCHANGED <<fp_vars, area_vars, hist_vars>>

\* df.iloc[i : i + 1].to_sql(table_name, conn, if_exists="append") inside
\* `try ... except Exception: pass`: the INSERT of an id the table holds
\* breaks `id INTEGER PRIMARY KEY`, and the error is dropped with the row
to_sql_append(table, id) ==
  IF \E r \in table : r.id = id THEN table
  ELSE table \cup {Row(id, "new")}

RECURSIVE save_to_database(_, _)
\* save_to_database: the rows of df are appended one by one
save_to_database(table, df) ==
  IF df = <<>> THEN table
  ELSE save_to_database(to_sql_append(table, Head(df)), Tail(df))

SaveCall ==
  /\ fn.op = "save"
  /\ Returns(save_to_database(fn.table, fn.df))

MergeCall ==
  /\ fn.op = "merge"
  /\ Returns(MergeResponse(fn.all_df, fn.listings))

BoundaryCall ==
  /\ fn.op = "boundary"
  /\ Returns(create_tile_boundary(fn.tile, fn.radius))

ParseCall ==
  /\ fn.op = "parse"
  /\ Returns(parse_property_data(parse_listings(fn.response_data)))

FnNext ==
  \/ MergeCall
  \/ BoundaryCall
  \/ ParseCall
  \/ SaveCall
  \/ GeoLookup
  \/ \E outcome \in {"found", "none", "timeout", "error"}, save_ok \in BOOLEAN :
       GeoAttempt(outcome, save_ok)

FnSpec == FnInit /\ [][FnNext]_vars

(* ------------------------------- claims -------------------------------- *)

C1_Witness ==
  /\ pc = "fp_returned"
  /\ result.count > 0
  /\ merged_rows > Len(result.df)

\* C2: resolving a window terminates: the tile list holds every tile id at
\* most once, so the loop position never passes the number of tile ids, the
\* price recursion is at most three calls deep, and the run reaches its end.
C2_Terminates ==
  /\ [](pc = "tile_loop" => idx <= Len(tiles) /\ Len(tiles) < MaxQueries)
  /\ [](Len(frames) <= 3)
  /\ <>(pc = "done")

\* the tile loop ran out of tiles after tiles of the remote were appended
C2_Witness ==
  /\ pc = "fp_returned"
  /\ exit = "exhausted"
  /\ Len(tiles) > 2
  /\ idx > Len(tiles)

\* C3: once the records aggregated for a window number at least the window's
\* total_found, no further search call is made for the window.
C3_NoQueryAfterReached == [][reached /\ reached' => calls' = calls]_vars

\* C4: a window whose first response reports totalFound = 0 returns the
\* empty result with found_all = true after one search call and no database
\* save, and the caller goes to the next year without price subdivision.
C4_EmptyWindow ==
  [][(pc = "fp_returned" /\ frames = <<>> /\ win_total = 0)
       => /\ result = DefaultResult
          /\ calls = 1
          /\ saves = 0
          /\ pc' = "year_loop"
          /\ year' = year + 1
          /\ frames' = <<>>
          /\ area_df' = area_df]_vars

\* the first response of a window reported totalFound = 0 and the call returned
C4_Witness ==
  /\ pc = "fp_returned"
  /\ frames = <<>>
  /\ win_total = 0
  /\ exit = "empty"
  /\ qlog # <<>>

\* C5: the flag returned by fetch_properties_by_prices for a window is true
\* iff the unique records aggregated for the window number the total_found
\* of the window's first response.
C5_PriceFlagIsCompleteness ==
  new_result # NoResult => (new_result.found_all <=> Cardinality(win_ids) = win_total)

\* C6: on every exit path of fetch_properties the returned found_all is true
\* iff the returned records number the total_found of the first response.
C6_FoundAllOnEveryExit ==
  pc = "fp_returned" => (result.found_all <=> Len(result.df) = total_found)

\* C7: after the tile loop the returned found_all agrees with the condition
\* that stops the loop, retrieved >= total_found.
C7_FlagAgreesWithBreak ==
  (pc = "fp_returned" /\ exit \in {"break", "exhausted"})
    => (result.found_all <=> Len(all_df) >= total_found)

\* C8: a failed search during tile expansion counts as a query that yielded
\* nothing: when the call returns after it, the records merged before it are
\* in the result and no tile of the list is left unqueried.
C8_FailureYieldsNothing ==
  (pc = "fp_returned" /\ frames = <<>> /\ exit = "search_raised")
    => /\ result.df = all_df
       /\ idx >= Len(tiles)

\* C9: a failed search never aborts the area: no exception leaves
\* fetch_properties, every year is processed, and the dataset is saved once,
\* from the records of the calls that did not raise, iff there is any.
C9_FailureDoesNotAbortArea ==
  /\ pc # "crashed"
  /\ pc = "done" => /\ year = end_year + 1
                    /\ Ids(csv_df) = fetched_ok
                    /\ csv_saves = (IF fetched_ok = {} THEN 0 ELSE 1)

\* the first year failed, a later year succeeded and the dataset was saved
C9_Witness ==
  /\ pc = "done"
  /\ START_YEAR \in failed_years
  /\ csv_saves = 1
  /\ csv_df # <<>>

\* C10: an empty response for a tile with a nonzero count is followed by one
\* retry for that tile before the next tile is processed.
C10_StaleTileRetried ==
  \A k \in 1..Len(qlog) :
    qlog[k].stale => /\ k < Len(qlog)
                     /\ qlog[k + 1].retry
                     /\ qlog[k + 1].tile = qlog[k].tile

(* ------------------------------- C11 ----------------------------------- *)
\* the ids the remote's tiles of the current call brought into the list
NewRemoteIds == remote_ids \ {SeedTiles[k].id : k \in 1..Len(SeedTiles)}

C12_UnionOfTilePhaseAndBuckets ==
  new_result # NoResult =>
    /\ requests = calls
    /\ win_ids \subseteq Ids(area_df)
    /\ Cardinality(win_ids) = win_total => new_result.found_all

BucketIncomplete == exit \in {"break", "exhausted"} /\ Len(all_df) < total_found
\* the bucket just fetched is empty or holds total_found unique records
BucketComplete == exit = "empty" \/ (exit = "break" /\ Len(all_df) = total_found)

C15_PriceAfterIncompleteTilePhase ==
  [][/\ (frames = <<>> /\ frames' # <<>>) => pc = "fp_returned"
     /\ (pc = "fp_returned" /\ frames = <<>>) =>
          (frames' # <<>> <=> Cardinality(Ids(result.df)) < win_total)]_vars

(* ------------------------------- C16 ----------------------------------- *)
\* C16: a call of fetch_properties starts its loop with exactly two tiles,
\* the sentinel (id 0) and the centroid tile (id 1, count 0) and with nothing
\* merged; its first search is for the sentinel and builds no bounding box;
\* total_found is the totalFound of the first response and no later response
\* of the call changes it
C16_FreshSeedAndFirstTotal ==
  /\ [](/\ (pc = "tile_loop" /\ idx = 1) =>
           /\ Len(tiles) = 2
           /\ tiles[1] = Tile(0, 0, 0, 0, 0)
           /\ tiles[2] = Tile(SubareaInfo.latitude, SubareaInfo.longitude, 0, 1, 0)
           /\ all_df = <<>>
           /\ is_first
        /\ qlog # <<>> =>
           /\ qlog[1].tile.id = 0
           /\ qlog[1].payload.boundary = PyNone
        /\ (frames = <<>> /\ pc \in {"tile_loop", "fp_returned"} /\ ~is_first) =>
           total_found = win_total)
  /\ [][(pc = "tile_loop" /\ ~is_first) => total_found' = total_found]_vars

\* the third search of a call was answered totalFound = 0 and total_found
\* kept the positive value of the first response
C16_Witness ==
  /\ frames = <<>>
  /\ Len(qlog) >= 3
  /\ qlog[3].stale
  /\ ~is_first
  /\ total_found > 0
  /\ total_found = win_total

(* ------------------------------- C17 ----------------------------------- *)
\* C17: the tile list of a fetch_properties call holds every tile id at most
\* once, and the searches of the call are for pairwise different tile ids
C17_TileIdsUnique ==
  /\ \A j, k \in 1..Len(tiles) : j # k => tiles[j].id # tiles[k].id
  /\ \A j, k \in 1..Len(qlog) : j # k => qlog[j].tile.id # qlog[k].tile.id

\* the responses of a call offered a tile with the id of the centroid seed
\* and a tile with a new id; every tile of the list was queried, once
C17_Witness ==
  /\ pc = "fp_returned"
  /\ exit = "exhausted"
  /\ {1, 2} \subseteq remote_ids
  /\ Len(tiles) = 3
  /\ Len(qlog) = 3

(* ------------------------------- C18 ----------------------------------- *)
\* C18: every tile a response offered while the call was incomplete, a tile
\* with id 0 or 1 (or without an id, parsed as id 0) included, is in the tile
\* list with its own coordinates, and has been searched for when the loop
\* ends with fewer records than total_found
C18_EveryRemoteTileQueried ==
  /\ \A i \in remote_ids : \E k \in 1..Len(tiles) : tiles[k] = RemoteTile(i)
  /\ (pc = "fp_returned" /\ exit = "exhausted") =>
       \A i \in remote_ids : \E k \in 1..Len(qlog) : qlog[k].tile = RemoteTile(i)

(* ------------------------------- C19 ----------------------------------- *)
\* C19: the search for the sentinel builds no bounding box, and the search
\* for any other tile builds the payload with the bounding box of that tile,
\* centred on the tile's lat and lon with the default radius
C19_TileQueryHasOwnBox ==
  \A k \in 1..Len(qlog) :
    LET q == qlog[k]
    IN IF q.tile.id = 0
       THEN q.payload.boundary = PyNone
       ELSE /\ ~q.payload.raises
            /\ q.payload.boundary = create_tile_boundary(q.tile, DefaultRadius)

(* ------------------------------- C20 ----------------------------------- *)
\* C20: every search made for a price bucket sends a payload with the
\* bucket's bounds, price-from = p and price-to = p + price_step, the
\* window's year and the dwelling type
C20_BucketQueryCarriesBounds ==
  (frames # <<>> /\ pc \in {"tile_loop", "fp_returned"}) =>
    \A k \in 1..Len(qlog) :
      LET q == qlog[k].payload
      IN /\ ~q.raises
         /\ q.price = <<price_from, price_to>>
         /\ price_to = price_from + Top.price_step
         /\ q.YEAR_BUILT[1] = PyInt(year)
         /\ q.DWELLING_TYPE = PyStr(DwellingType)

(* ------------------------------- C21 ----------------------------------- *)
\* the number of rows of df without an id
NaNRows(df) == Cardinality({k \in 1..Len(df) : df[k] = NaN})

\* C21: merging a response keeps every record without LIST_ID, those merged
\* before and those of the response, and keeps every id of the other records
C21_RecordsWithoutIdKept ==
  (fn.op = "merge" /\ fn.done) =>
    /\ ~fn.out.raises
    /\ NaNRows(fn.out.df) = NaNRows(fn.all_df) + NaNRows(fn.listings)
    /\ (Ids(fn.all_df) \cup Ids(fn.listings)) \ {NaN} \subseteq Ids(fn.out.df)

(* ------------------------------- C22 ----------------------------------- *)
\* C22: in a fetch_properties call all_df holds one row for each LIST_ID
\* seen in the responses merged so far; a merge leaves the rows already
\* there in place, and a response that brings no new LIST_ID leaves all_df
\* as it was
C22_SizeIsDistinctIdsSeen ==
  /\ [](Len(all_df) = Cardinality(seen_ids) /\ Ids(all_df) = seen_ids)
  /\ [][pc = "tile_loop" =>
         /\ Len(all_df') >= Len(all_df)
         /\ SubSeq(all_df', 1, Len(all_df)) = all_df
         /\ seen_ids' = seen_ids => all_df' = all_df]_vars

\* two responses and more have been merged, with a listing repeated
C22_Witness ==
  /\ pc = "tile_loop"
  /\ Len(qlog) >= 2
  /\ Len(all_df) >= 1
  /\ merged_rows > Len(all_df)

(* ------------------------------- C23 ----------------------------------- *)
\* C23: the years start_year..end_year are taken one after the other, each
\* with a fresh fetch_properties call without price bounds; save_to_csv is
\* called at most once, after the last year only, with a dataset that holds
\* every id once, and it is not called when no year left a record
C23_YearsThenOneSave ==
  /\ [](/\ year \in START_YEAR..(end_year + 1)
        /\ csv_saves <= 1
        /\ csv_saves = 1 =>
             /\ pc = "done"
             /\ year = end_year + 1
             /\ NoDuplicates(csv_df)
             /\ Ids(csv_df) = Ids(area_df)
        /\ pc = "done" => (csv_saves = 1 <=> area_df # <<>>))
  /\ [][/\ year' # year => (year' = year + 1 /\ pc' = "year_loop")
        /\ (pc = "year_loop" /\ pc' = "tile_loop") =>
             /\ tiles' = SeedTiles
             /\ all_df' = <<>>
             /\ is_first'
             /\ price_from' = 0 /\ price_to' = 0
             /\ year' = year]_vars

\* several years were processed, a listing was returned for more than one
\* of them, and the dataset was saved with that listing once
C23_Witness ==
  /\ pc = "done"
  /\ end_year > START_YEAR
  /\ csv_saves = 1
  /\ Len(csv_df) < Len(area_df)

(* ------------------------------- C24 ----------------------------------- *)
\* C24: a request is sent to the remote only when random_sleep has run
\* since the request before it, whether that request succeeded or failed
C24_SleepAfterEveryRequest ==
  [][requests' = requests + 1 => slept]_vars
\* C25: the boundary of a tile has its south-west corner at the centre
\* minus the radius and its north-east corner at the centre plus the
\* radius, so with a radius that is not negative the box contains the
\* centre and its south-west corner is not beyond its north-east corner
C25_BoxAroundCentre ==
  (fn.op = "boundary" /\ fn.done) =>
    LET b == fn.out
    IN /\ DOMAIN b = {"sw_lat", "sw_lng", "ne_lat", "ne_lng",
                      "center_lat", "center_lng"}
       /\ b.center_lat = fn.tile.lat * 100
       /\ b.center_lng = fn.tile.lon * 100
       /\ b.sw_lat = b.center_lat - fn.radius
       /\ b.sw_lng = b.center_lng - fn.radius
       /\ b.ne_lat = b.center_lat + fn.radius
       /\ b.ne_lng = b.center_lng + fn.radius
       /\ b.sw_lat <= b.center_lat /\ b.center_lat <= b.ne_lat
       /\ b.sw_lng <= b.center_lng /\ b.center_lng <= b.ne_lng

\* a box of positive radius around a tile of the remote has been built
C25_Witness ==
  /\ fn.op = "boundary" /\ fn.done
  /\ fn.radius > 0
  /\ fn.tile.id > 0
  /\ fn.out.sw_lat < fn.out.ne_lat

\* C26: parsing a response gives one record for each listing the response
\* holds, under its `listings` key or its `results` key, and none for a
\* response that holds no listing
C26_OneRecordPerListing ==
  (fn.op = "parse" /\ fn.done) =>
    LET rd == fn.response_data
    IN /\ ~fn.out.raises
       /\ Len(fn.out.df) = Len(rd.listings) + Len(rd.results)
       /\ \A i \in Ids(rd.listings) \cup Ids(rd.results) : i \in Ids(fn.out.df)

\* C27: _get_area_coordinates returns the row of the cache without a call
\* of geocode when the cache has one; otherwise it calls geocode at most
\* GEOCODER_MAX_RETRIES times, stores coordinates only when geocode found a
\* location, returns the default coordinates when none was found, and
\* never raises
C27_CacheThenBoundedGeocode ==
  fn.op = "geo" =>
    /\ fn.calls <= GEOCODER_MAX_RETRIES
    /\ fn.coords = CachedRow => fn.calls = 0
    /\ fn.saved => fn.found
    /\ ~fn.raised
    /\ fn.done =>
         /\ fn.coords = CachedRow => fn.out = CachedRow
         /\ (fn.coords = PyNone /\ ~fn.found) => fn.out = DefaultCoordinates
         /\ fn.saved => fn.out = Location

\* the cache had no row and every one of the GEOCODER_MAX_RETRIES calls of
\* geocode found nothing
C27_Witness ==
  /\ fn.op = "geo" /\ fn.done
  /\ fn.coords = PyNone
  /\ fn.calls = GEOCODER_MAX_RETRIES
  /\ fn.out = DefaultCoordinates

\* the bucket that the loop of frame f is at, or is about to generate
BucketOf(f) == [lo |-> f.price, hi |-> f.price + f.price_step]

WindowPrices == {PRICE_FROM - 1, PRICE_FROM, PRICE_TO - 1, PRICE_TO}

\* C29: when the bucket loop of the call made for an incomplete window has
\* ended, the buckets it generated cover the price of every record of the
\* window
C29_BucketsCoverWindowPrices ==
  (pc = "price_loop" /\ Len(frames) = 1 /\ Top.price >= Top.price_to) =>
    \A p \in WindowPrices : Top.price_from <= p /\ p < Top.price

\* C30: after save_to_database every record of the DataFrame is stored, and
\* the stored row of each of them holds the values just fetched, also when
\* the table held a row of that id before
C30_SaveUpdatesStoredRecords ==
  (fn.op = "save" /\ fn.done) =>
    \A i \in Ids(fn.df) :
      /\ \E r \in fn.out : r.id = i
      /\ \A r \in fn.out : r.id = i => r.fetch = "new"

====
